---------------------------- MODULE Spec2Model ----------------------------
(***************************************************************************)
(* A model of src/circular_buffer.h: jaba::CircularBuffer, the raw ring    *)
(* byte buffer, and jaba::CircularBufferMsgsT<msg_size_t>, the framing     *)
(* layer that prefixes each payload with a length marker.                  *)
(*                                                                         *)
(* Modelling choices:                                                      *)
(*  - assert() is active (the source never defines NDEBUG): a failed       *)
(*    assertion aborts the process, which the model records in `aborted`;  *)
(*    an aborted process takes no further step.                            *)
(*  - size_t is an unsigned integer of SizeBits bits, arithmetic on it is  *)
(*    taken modulo SizeMod; msg_size_t is the default uint16_t.            *)
(*  - storage returned by new char[n] is uninitialised: every cell starts  *)
(*    as Uninit, an indeterminate value, and a read copies it as it is.    *)
(*  - a caller's data block is named by its first byte (its "seed"): the   *)
(*    block of n bytes is seed, seed+1, ..., seed+n-1.  NullPtr is the     *)
(*    null data pointer.                                                   *)
(*  - the marker is stored in the machine's byte order; the model takes    *)
(*    little-endian.  Encoding and decoding are both computed.             *)
(*                                                                         *)
(* Specifications:                                                         *)
(*  - Spec: the framed buffer under create, destroy, pushMsg, popMsg.      *)
(*  - SpecWide: the framed buffer on storage that holds a payload longer   *)
(*    than a msg_size_t can count.                                         *)
(*  - SpecFifo, SpecScenario: the raw buffer under push and pop, with the  *)
(*    bytes that went in and out kept as histories.                        *)
(*  - SpecRaw: the raw buffer under all its operations, in any order.      *)
(*  - SpecProtocol: the raw buffer used as popMsg uses it.                 *)
(***************************************************************************)
EXTENDS Integers, Naturals, Sequences, FiniteSets, TLC

\* ------------------------------------------------------------------ bounds
\* Largest capacity passed to create() of the framed buffer.
MaxCapacity == 7

\* Largest capacity passed to create() of the raw buffer under push and pop.
MaxRawCapacity == 3

\* Largest capacity passed to create() of the raw buffer under all its
\* operations (checkpoints and clear included).
MaxCheckPointCapacity == 2

\* Raw layer: total number of bytes pushed in one behaviour (it bounds the
\* histories `pushed` and `popped`).
MaxPushed == 6

\* Width of size_t in the model (the real one is 32 or 64 bits).
SizeBits == 20

\* Raw layer, the wraparound scenario: total number of bytes pushed in one
\* behaviour.
MaxScenarioPushed == 13

\* Framed layer on large storage: the largest capacity is
\* MarkerMod + sizeof(msg_size_t) + MaxWideSlack.
MaxWideSlack == 4

\* Framed layer on large storage: number of messages enqueued in one
\* behaviour.
MaxEnqueued == 2

\* ------------------------------------------------------- program constants
\* sizeof(msg_size_t) for the default msg_size_t = uint16_t.
MarkerSize == 2

\* Number of values of one byte (unsigned char).
ByteMod == 256

\* ----------------------------------------------------------------- helpers
RECURSIVE Pow2(_)
Pow2(k) == IF k = 0 THEN 1 ELSE 2 * Pow2(k - 1)

\* size_t arithmetic wraps modulo SizeMod.
SizeMod == Pow2(SizeBits)

SizeT(x) == x % SizeMod

\* The largest value of size_t, (size_t)-1.
SizeMax == SizeMod - 1

\* msg_size_t arithmetic wraps modulo MarkerMod.
MarkerMod == Pow2(8 * MarkerSize)

\* An uninitialised byte of storage.
Uninit == -1

RECURSIVE Pow(_, _)
Pow(b, k) == IF k = 0 THEN 1 ELSE b * Pow(b, k - 1)

Min(a, b) == IF a <= b THEN a ELSE b

\* A data pointer: null, or pointing at the caller's bytes.
NullPtr == [null |-> TRUE, bytes |-> <<>>]

Ptr(bytes) == [null |-> FALSE, bytes |-> bytes]

\* First bytes of the blocks a caller passes in.  Under push and pop alone
\* the producer has two blocks, "ABC..." and "abc..."; elsewhere one.
FifoSeeds == {65, 97}

DataSeeds == {65}

\* The caller's block of n bytes seed, seed+1, ...  No call reads more of a
\* block than the storage holds, so no more of it is spelled out.
Block(seed, n) ==
  Ptr([i \in 1..Min(n, MaxCapacity + 1) |-> (seed + i - 1) % ByteMod])

\* The data blocks a caller passes with size n: null, or one of the blocks.
Blocks(seeds, n) == {NullPtr} \cup {Block(seed, n) : seed \in seeds}

\* The sequence f itself, every element written out: it keeps the cost of
\* one storage access independent of how the storage value was computed.
Flat(f) == SubSeq(f, 1, Len(f))

\* memcpy(buffer + off, bytes, Len(bytes)) on storage m.
MemWrite(m, off, bytes) ==
  LET old == Flat(m)
      src == Flat(bytes)
  IN [i \in 1..Len(old) |->
        IF i - 1 >= off /\ i - 1 < off + Len(src) THEN src[i - off] ELSE old[i]]

\* memcpy(out, buffer + off, n) on storage m: the n bytes copied out.
MemRead(m, off, n) ==
  LET src == Flat(m)
  IN [i \in 1..n |-> src[off + i]]

\* Capacities create() is called with.
Capacities == 0..MaxCapacity

RawCapacities == 0..MaxRawCapacity

CheckPointCapacities == 0..MaxCheckPointCapacity

\* Sizes passed to push and pop on a buffer of capacity cap: everything up
\* to one more than the capacity, and the largest value of size_t.
RawSizes(cap) == (0..(cap + 1)) \cup {SizeMax}

\* Sizes passed to pushMsg: as above, and the size that makes
\* data_size + sizeof(msg_size_t) wrap to 0.
Sizes(cap) == (0..(cap + 1)) \cup {SizeT(0 - MarkerSize), SizeMax}

\* Receive-buffer sizes passed to popMsg.
MaxSizes(cap) == 0..cap

\* ------------------------------------------------------------------- state
VARIABLES
  buffer,          \* the storage pointer: "nullptr", "allocated" or "freed"
  mem,             \* the storage itself: cell at offset o is mem[o + 1]
  allocated_size,
  head,            \* first byte to be used next time some pushes
  tail,            \* first byte to be read
  free_space,      \* remaining free space
  nmsgs,           \* CircularBufferMsgsT::nmsgs
  check_point,     \* the CheckPoint the caller holds, or NoCheckPoint
  aborted,         \* an assertion failed (or undefined behaviour crashed)
  last,            \* the last call: its name, arguments, return value, output
  pushed,          \* history: every byte successfully pushed, in order
  popped,          \* history: every byte successfully popped, in order
  queue,           \* history: payloads enqueued by pushMsg and not yet dequeued
  saved,           \* history: the cursors and readable bytes at saveCheckPoint
  tentative,       \* history: "saved" at saveCheckPoint, "popped" once bytes
                   \* were popped since, "no" after a push or a clear
  refused,         \* history: "yes" once popMsg refused the front message as
                   \* too large, "retried" once it was then dequeued
  enqueued         \* history: how many messages pushMsg has enqueued (kept
                   \* on a buffer of large capacity only)

vars == <<buffer, mem, allocated_size, head, tail, free_space, nmsgs,
          check_point, aborted, last, pushed, popped, queue, saved,
          tentative, refused, enqueued>>

\* The CircularBuffer object as one value.
This ==
  [buffer |-> buffer, mem |-> mem, allocated_size |-> allocated_size,
   head |-> head, tail |-> tail, free_space |-> free_space]

\* A default-constructed CircularBuffer (the member initialisers).
Constructed ==
  [buffer |-> "nullptr", mem |-> <<>>, allocated_size |-> 0,
   head |-> 0, tail |-> 0, free_space |-> 0]

\* The caller holds no checkpoint; <<cp>> is the one it holds.
NoCheckPoint == <<>>

\* What a call gives back: the object after it, the return value, the bytes
\* copied to the caller, and whether the process aborted in it.
Result(s, r, o, a) == [st |-> s, ret |-> r, out |-> o, abort |-> a]

\* ------------------------------------------------------- CircularBuffer
\* Mutant of clear: only the write cursor is reset.
clear_head_only(s) == [s EXCEPT !.head = 0]

clear(s) == [s EXCEPT !.head = 0, !.tail = 0]

create(s, new_size) ==
  IF s.allocated_size # 0 \/ s.buffer # "nullptr"
    THEN Result(s, "void", <<>>, TRUE)
    ELSE Result([buffer |-> "allocated",
                 mem |-> [i \in 1..new_size |-> Uninit],
                 allocated_size |-> new_size,
                 head |-> 0, tail |-> 0, free_space |-> new_size],
                "void", <<>>, FALSE)

\* delete[] leaves the pointer as it is: non-null and no longer valid.
destroy(s) ==
  clear([s EXCEPT !.buffer = IF @ = "nullptr" THEN "nullptr" ELSE "freed",
                  !.mem = <<>>,
                  !.allocated_size = 0,
                  !.free_space = 0])

saveCheckPoint(s) ==
  [head |-> s.head, tail |-> s.tail, free_space |-> s.free_space]

\* Mutant of loadCheckPoint: nothing is restored.
loadCheckPoint_noop(s, cp) == s

\* Mutant of loadCheckPoint: free_space is not restored.
loadCheckPoint_no_free_space(s, cp) ==
  [s EXCEPT !.tail = cp.tail, !.head = cp.head]

loadCheckPoint(s, cp) ==
  [s EXCEPT !.tail = cp.tail, !.head = cp.head, !.free_space = cp.free_space]

isValid(s) == s.buffer # "nullptr" /\ s.allocated_size > 0

empty(s) == s.free_space = s.allocated_size

capacity(s) == s.allocated_size

bytesUsed(s) == SizeT(s.allocated_size - s.free_space)

bytesFree(s) == s.free_space

\* Mutant of push_copy: after a split write the head is the whole size.
push_copy_head_past_split(s, data, data_size) ==
  LET bytes_to_wrap == SizeT(s.allocated_size - s.head)
  IN IF bytes_to_wrap >= data_size
       THEN [s EXCEPT !.mem = MemWrite(@, s.head, SubSeq(data.bytes, 1, data_size)),
                      !.head = SizeT(@ + data_size)]
       ELSE [s EXCEPT
               !.mem = MemWrite(MemWrite(@, s.head,
                                         SubSeq(data.bytes, 1, bytes_to_wrap)),
                                0,
                                SubSeq(data.bytes, bytes_to_wrap + 1, data_size)),
               !.head = data_size]

\* Mutant of push_copy: a split write stores its first piece only.
push_copy_first_piece(s, data, data_size) ==
  LET bytes_to_wrap == SizeT(s.allocated_size - s.head)
  IN IF bytes_to_wrap >= data_size
       THEN [s EXCEPT !.mem = MemWrite(@, s.head, SubSeq(data.bytes, 1, data_size)),
                      !.head = SizeT(@ + data_size)]
       ELSE [s EXCEPT
               !.mem = MemWrite(@, s.head, SubSeq(data.bytes, 1, bytes_to_wrap)),
               !.head = SizeT(data_size - bytes_to_wrap)]

\* Lines 90-100: the copy into storage and the new head.
push_copy(s, data, data_size) ==
  LET bytes_to_wrap == SizeT(s.allocated_size - s.head)
  IN IF bytes_to_wrap >= data_size
       THEN [s EXCEPT !.mem = MemWrite(@, s.head, SubSeq(data.bytes, 1, data_size)),
                      !.head = SizeT(@ + data_size)]
       ELSE [s EXCEPT
               !.mem = MemWrite(MemWrite(@, s.head,
                                         SubSeq(data.bytes, 1, bytes_to_wrap)),
                                0,
                                SubSeq(data.bytes, bytes_to_wrap + 1, data_size)),
               !.head = SizeT(data_size - bytes_to_wrap)]

\* Mutant of push: free_space is left as it was.
push_free_space_kept(s, data, data_size) ==
  IF data_size > s.free_space
    THEN Result(s, FALSE, <<>>, FALSE)
    ELSE IF data.null \/ ~(data_size > 0) \/ ~(data_size < s.allocated_size)
      THEN Result(s, FALSE, <<>>, TRUE)
      ELSE Result(push_copy(s, data, data_size), TRUE, <<>>, FALSE)

\* Mutant of push: the last assertion reads data_size <= allocated_size.
push_le_capacity(s, data, data_size) ==
  IF data_size > s.free_space
    THEN Result(s, FALSE, <<>>, FALSE)
    ELSE IF data.null \/ ~(data_size > 0) \/ ~(data_size <= s.allocated_size)
      THEN Result(s, FALSE, <<>>, TRUE)
      ELSE Result(push_copy([s EXCEPT !.free_space = SizeT(@ - data_size)],
                            data, data_size),
                  TRUE, <<>>, FALSE)

push(s, data, data_size) ==
  IF data_size > s.free_space
    THEN Result(s, FALSE, <<>>, FALSE)
    ELSE IF data.null \/ ~(data_size > 0) \/ ~(data_size < s.allocated_size)
      THEN Result(s, FALSE, <<>>, TRUE)
      ELSE Result(push_copy([s EXCEPT !.free_space = SizeT(@ - data_size)],
                            data, data_size),
                  TRUE, <<>>, FALSE)

\* Mutant of pop_data: the two pieces of a split read land in the wrong order.
pop_data_swapped(s, data_size) ==
  LET bytes_to_wrap == SizeT(s.allocated_size - s.tail)
  IN IF bytes_to_wrap >= data_size
       THEN MemRead(s.mem, s.tail, data_size)
       ELSE MemRead(s.mem, 0, SizeT(data_size - bytes_to_wrap))
              \o MemRead(s.mem, s.tail, bytes_to_wrap)

\* Lines 109-119: the bytes copied out of storage.
pop_data(s, data_size) ==
  LET bytes_to_wrap == SizeT(s.allocated_size - s.tail)
  IN IF bytes_to_wrap >= data_size
       THEN MemRead(s.mem, s.tail, data_size)
       ELSE MemRead(s.mem, s.tail, bytes_to_wrap)
              \o MemRead(s.mem, 0, SizeT(data_size - bytes_to_wrap))

\* Mutant of pop_tail: the read cursor never wraps.
pop_tail_no_wrap(s, data_size) == SizeT(s.tail + data_size)

\* Lines 109-119: the new tail.
pop_tail(s, data_size) ==
  LET bytes_to_wrap == SizeT(s.allocated_size - s.tail)
  IN IF bytes_to_wrap >= data_size
       THEN SizeT(s.tail + data_size)
       ELSE SizeT(data_size - bytes_to_wrap)

\* Mutant of pop: the guard compares with the capacity, not the used space.
pop_capacity_check(s, data_size) ==
  IF s.allocated_size < data_size
    THEN Result(s, FALSE, <<>>, FALSE)
    ELSE Result([s EXCEPT !.tail = pop_tail(s, data_size),
                          !.free_space = SizeT(@ + data_size)],
                TRUE, pop_data(s, data_size), FALSE)

\* Mutant of pop: the guard is off by one (used_space <= data_size).
pop_off_by_one(s, data_size) ==
  LET used_space == bytesUsed(s)
  IN IF used_space <= data_size
       THEN Result(s, FALSE, <<>>, FALSE)
       ELSE Result([s EXCEPT !.tail = pop_tail(s, data_size),
                             !.free_space = SizeT(@ + data_size)],
                   TRUE, pop_data(s, data_size), FALSE)

pop(s, data_size) ==
  LET used_space == bytesUsed(s)
  IN IF used_space < data_size
       THEN Result(s, FALSE, <<>>, FALSE)
       ELSE Result([s EXCEPT !.tail = pop_tail(s, data_size),
                             !.free_space = SizeT(@ + data_size)],
                   TRUE, pop_data(s, data_size), FALSE)


\* -------------------------------------------------- CircularBufferMsgsT
\* (msg_size_t)n stored in the machine's byte order.
EncodeMarker(n) ==
  [i \in 1..MarkerSize |-> ((n % MarkerMod) \div Pow(ByteMod, i - 1)) % ByteMod]

\* The msg_size_t read back from the bytes of a marker.
RECURSIVE DecodeMarker(_)
DecodeMarker(bytes) ==
  IF bytes = <<>> THEN 0
  ELSE Head(bytes) + ByteMod * DecodeMarker(Tail(bytes))

\* What a call on the framed buffer gives back: as Result, and nmsgs after it.
MsgResult(s, n, r, o, a) ==
  [st |-> s, nmsgs |-> n, ret |-> r, out |-> o, abort |-> a]

\* Mutant of pushMsg: a length the marker cannot hold is refused.
pushMsg_length_checked(s, n, data, data_size) ==
  IF SizeT(data_size + MarkerSize) > s.free_space \/ data_size >= MarkerMod
    THEN MsgResult(s, n, FALSE, <<>>, FALSE)
    ELSE
      LET msg_size == data_size % MarkerMod
          r1 == push(s, Ptr(EncodeMarker(msg_size)), MarkerSize)
          r2 == push(r1.st, data, data_size)
      IN IF r1.abort \/ ~r1.ret
           THEN MsgResult(r1.st, n, FALSE, <<>>, TRUE)
           ELSE IF r2.abort \/ ~r2.ret
             THEN MsgResult(r2.st, n, FALSE, <<>>, TRUE)
             ELSE MsgResult(r2.st, SizeT(n + 1), TRUE, <<>>, FALSE)

pushMsg(s, n, data, data_size) ==
  IF SizeT(data_size + MarkerSize) > s.free_space
    THEN MsgResult(s, n, FALSE, <<>>, FALSE)
    ELSE
      LET msg_size == data_size % MarkerMod
          r1 == push(s, Ptr(EncodeMarker(msg_size)), MarkerSize)
          r2 == push(r1.st, data, data_size)
      IN IF r1.abort \/ ~r1.ret
           THEN MsgResult(r1.st, n, FALSE, <<>>, TRUE)
           ELSE IF r2.abort \/ ~r2.ret
             THEN MsgResult(r2.st, n, FALSE, <<>>, TRUE)
             ELSE MsgResult(r2.st, SizeT(n + 1), TRUE, <<>>, FALSE)

\* Lines 184-189: the count goes down and, at zero, the cursors are reset.
popMsg_done(s, n, msg_size, out) ==
  LET n1 == SizeT(n - 1)
  IN IF ~(n1 > 0 \/ empty(s))
       THEN MsgResult(s, n1, 0, out, TRUE)
       ELSE MsgResult(IF n1 = 0 THEN clear(s) ELSE s, n1, msg_size, out, FALSE)

popMsg(s, n, max_data_size) ==
  LET used_space == bytesUsed(s)
  IN IF used_space < MarkerSize
       THEN MsgResult(s, n, 0, <<>>, FALSE)
       ELSE
         LET check_pt == saveCheckPoint(s)
             r1 == pop(s, MarkerSize)
             msg_size == DecodeMarker(r1.out)
             r2 == pop(r1.st, msg_size)
         IN IF ~r1.ret
              THEN MsgResult(r1.st, n, 0, <<>>, TRUE)
              ELSE IF msg_size > max_data_size
                THEN MsgResult(loadCheckPoint(r1.st, check_pt), n, 0, <<>>, FALSE)
                ELSE IF ~r2.ret
                  THEN MsgResult(r2.st, n, 0, <<>>, TRUE)
                  ELSE popMsg_done(r2.st, n, msg_size, r2.out)

\* The bytes a pop of everything buffered would copy out.
Readable(s) == pop_data(s, bytesUsed(s))

\* ----------------------------------------------------------------- actions
\* The object's fields after a call.
Becomes(s) ==
  /\ buffer' = s.buffer
  /\ mem' = s.mem
  /\ allocated_size' = s.allocated_size
  /\ head' = s.head
  /\ tail' = s.tail
  /\ free_space' = s.free_space

\* A call that returns bool: its size argument, whether its data pointer
\* was null, what it returned and what it copied out.
Call(op, size, null, r) ==
  [op |-> op, size |-> size, null |-> null, ret |-> r.ret, len |-> 0,
   out |-> r.out]

\* A call that returns size_t: len is the value, ret the value read as bool.
SizeCall(op, size, r) ==
  [op |-> op, size |-> size, null |-> FALSE, ret |-> r.ret # 0, len |-> r.ret,
   out |-> r.out]

\* A call that returns nothing.
VoidCall(op, size) ==
  [op |-> op, size |-> size, null |-> FALSE, ret |-> FALSE, len |-> 0,
   out |-> <<>>]

InitHistory ==
  /\ pushed = <<>>
  /\ popped = <<>>
  /\ queue = <<>>
  /\ saved = NoCheckPoint
  /\ tentative = "no"
  /\ refused = "no"
  /\ enqueued = 0

\* The raw buffer right after create(new_size).
InitCreated(capacities) ==
  \E new_size \in capacities :
    LET r == create(Constructed, new_size)
    IN /\ buffer = r.st.buffer
       /\ mem = r.st.mem
       /\ allocated_size = r.st.allocated_size
       /\ head = r.st.head
       /\ tail = r.st.tail
       /\ free_space = r.st.free_space
       /\ nmsgs = 0
       /\ check_point = NoCheckPoint
       /\ aborted = r.abort
       /\ last = VoidCall("create", new_size)
       /\ InitHistory

InitFifo == InitCreated(RawCapacities)

InitRaw == InitCreated(CheckPointCapacities)

\* One call of push(data, data_size), the histories apart.
PushCall(data, data_size) ==
  LET r == push(This, data, data_size)
  IN /\ Becomes(r.st)
     /\ aborted' = r.abort
     /\ last' = Call("push", data_size, data.null, r)
     /\ tentative' = "no"
     /\ UNCHANGED <<nmsgs, check_point, queue, saved, refused, enqueued>>

\* One call of pop(data, data_size), the histories apart.
PopCall(data_size) ==
  LET r == pop(This, data_size)
  IN /\ Becomes(r.st)
     /\ aborted' = r.abort
     /\ last' = Call("pop", data_size, FALSE, r)
     /\ tentative' = IF tentative # "no" /\ r.ret /\ data_size > 0
                      THEN "popped" ELSE tentative
     /\ UNCHANGED <<nmsgs, check_point, queue, saved, refused, enqueued>>

Push ==
  /\ ~aborted
  /\ \E data_size \in RawSizes(allocated_size) :
     \E data \in Blocks(DataSeeds, data_size) :
       /\ PushCall(data, data_size)
       /\ UNCHANGED <<pushed, popped>>

Pop ==
  /\ ~aborted
  /\ \E data_size \in RawSizes(allocated_size) :
       /\ PopCall(data_size)
       /\ UNCHANGED <<pushed, popped>>

\* push, with every byte it stored appended to the history `pushed`.
FifoPush ==
  /\ ~aborted
  /\ \E data_size \in RawSizes(allocated_size) :
     \E data \in Blocks(FifoSeeds, data_size) :
       LET r == push(This, data, data_size)
           ok == r.ret /\ ~r.abort
       IN /\ ok => Len(pushed) + data_size <= MaxPushed
          /\ PushCall(data, data_size)
          /\ pushed' = IF ok THEN pushed \o data.bytes ELSE pushed
          /\ UNCHANGED popped

\* pop, with every byte it returned appended to the history `popped`.
FifoPop ==
  /\ ~aborted
  /\ \E data_size \in RawSizes(allocated_size) :
       /\ PopCall(data_size)
       /\ popped' = popped \o pop(This, data_size).out
       /\ UNCHANGED pushed

SaveCheckPoint ==
  /\ ~aborted
  /\ check_point' = <<saveCheckPoint(This)>>
  /\ saved' = <<[head |-> head, tail |-> tail, free_space |-> free_space,
                 readable |-> Readable(This)]>>
  /\ tentative' = "saved"
  /\ last' = VoidCall("saveCheckPoint", 0)
  /\ UNCHANGED <<buffer, mem, allocated_size, head, tail, free_space, nmsgs,
                 aborted, pushed, popped, queue, refused, enqueued>>

\* The caller passes back the checkpoint it took on this buffer.
LoadCheckPoint ==
  /\ ~aborted
  /\ check_point # NoCheckPoint
  /\ Becomes(loadCheckPoint(This, check_point[1]))
  /\ last' = VoidCall("loadCheckPoint", 0)
  /\ UNCHANGED <<nmsgs, check_point, aborted, pushed, popped, queue, saved,
                 tentative, refused, enqueued>>

Clear ==
  /\ ~aborted
  /\ Becomes(clear(This))
  /\ last' = VoidCall("clear", 0)
  /\ tentative' = "no"
  /\ UNCHANGED <<nmsgs, check_point, aborted, pushed, popped, queue, saved,
                 refused, enqueued>>

\* The raw buffer under push and pop alone.
NextFifo == FifoPush \/ FifoPop

SpecFifo == InitFifo /\ [][NextFifo]_vars

\* The raw buffer under all its operations.
NextRaw == Push \/ Pop \/ SaveCheckPoint \/ LoadCheckPoint \/ Clear

SpecRaw == InitRaw /\ [][NextRaw]_vars

\* The wraparound scenario: storage of 10 bytes, transfers of the sizes the
\* scenario uses and of the sizes around the amount then buffered.
ScenarioCapacities == {10}

ScenarioSizes == {3, 6, 7, 9, 10}

\* The caller's block of n bytes, spelled out in full.
WideBlock(seed, n) == Ptr([i \in 1..n |-> (seed + i - 1) % ByteMod])

InitScenario == InitCreated(ScenarioCapacities)

\* push of one of the scenario's sizes, with the bytes stored appended to
\* the history `pushed`.
ScenarioPush ==
  /\ ~aborted
  /\ \E data_size \in ScenarioSizes :
     \E seed \in FifoSeeds :
       LET data == WideBlock(seed, data_size)
           r == push(This, data, data_size)
           ok == r.ret /\ ~r.abort
       IN /\ ok => Len(pushed) + data_size <= MaxScenarioPushed
          /\ PushCall(data, data_size)
          /\ pushed' = IF ok THEN pushed \o data.bytes ELSE pushed
          /\ UNCHANGED popped

\* pop of one of the scenario's sizes, with the bytes returned appended to
\* the history `popped`.
ScenarioPop ==
  /\ ~aborted
  /\ \E data_size \in ScenarioSizes :
       /\ PopCall(data_size)
       /\ popped' = popped \o pop(This, data_size).out
       /\ UNCHANGED pushed

NextScenario == ScenarioPush \/ ScenarioPop

SpecScenario == InitScenario /\ [][NextScenario]_vars

\* The caller loads its checkpoint only if it has done nothing but pop
\* since it took it.
RollBack ==
  /\ tentative # "no"
  /\ LoadCheckPoint

\* The caller resets the cursors only on an empty buffer.
ClearWhenEmpty ==
  /\ empty(This)
  /\ Clear

\* The raw buffer used as popMsg uses it: checkpoints are loaded around
\* pops only, clear() is called only when empty.
NextProtocol == Push \/ Pop \/ SaveCheckPoint \/ RollBack \/ ClearWhenEmpty

SpecProtocol == InitFifo /\ [][NextProtocol]_vars


\* ------------------------------------------------------ the framed buffer
\* A default-constructed CircularBufferMsgs.
Init ==
  /\ buffer = Constructed.buffer
  /\ mem = Constructed.mem
  /\ allocated_size = Constructed.allocated_size
  /\ head = Constructed.head
  /\ tail = Constructed.tail
  /\ free_space = Constructed.free_space
  /\ nmsgs = 0
  /\ check_point = NoCheckPoint
  /\ aborted = FALSE
  /\ last = VoidCall("new", 0)
  /\ InitHistory

Create ==
  /\ ~aborted
  /\ \E new_size \in Capacities :
       LET r == create(This, new_size)
       IN /\ Becomes(r.st)
          /\ aborted' = r.abort
          /\ last' = VoidCall("create", new_size)
          /\ UNCHANGED <<nmsgs, check_point, pushed, popped, queue, saved,
                         tentative, refused, enqueued>>

\* delete[] of a pointer already deleted is undefined: the process may crash
\* in it or run on.  The messages that were buffered are gone with the
\* storage.
Destroy ==
  /\ ~aborted
  /\ Becomes(destroy(This))
  /\ \/ aborted' = FALSE
     \/ buffer = "freed" /\ aborted' = TRUE
  /\ last' = VoidCall("destroy", 0)
  /\ queue' = <<>>
  /\ refused' = "no"
  /\ UNCHANGED <<nmsgs, check_point, pushed, popped, saved, tentative,
                 enqueued>>

\* One call of pushMsg(data, data_size), the count `enqueued` apart.
PushMsgCall(data, data_size) ==
  LET r == pushMsg(This, nmsgs, data, data_size)
  IN /\ Becomes(r.st)
     /\ nmsgs' = r.nmsgs
     /\ aborted' = r.abort
     /\ last' = Call("pushMsg", data_size, data.null, r)
     /\ queue' = IF r.ret /\ ~r.abort THEN Append(queue, data.bytes)
                                      ELSE queue
     /\ UNCHANGED <<check_point, pushed, popped, saved, tentative, refused>>

\* One call of popMsg(data, max_data_size).
PopMsgCall(max_data_size) ==
  LET r == popMsg(This, nmsgs, max_data_size)
      took == r.nmsgs # nmsgs
  IN /\ Becomes(r.st)
     /\ nmsgs' = r.nmsgs
     /\ aborted' = r.abort
     /\ last' = SizeCall("popMsg", max_data_size, r)
     /\ queue' = IF took /\ queue # <<>> THEN Tail(queue) ELSE queue
     /\ refused' = IF took
                     THEN (IF refused = "yes" THEN "retried" ELSE "no")
                   ELSE IF bytesUsed(This) >= MarkerSize /\ ~r.abort
                     THEN "yes" ELSE refused
     /\ UNCHANGED <<check_point, pushed, popped, saved, tentative, enqueued>>

PushMsg ==
  /\ ~aborted
  /\ \E data_size \in Sizes(allocated_size) :
     \E data \in Blocks(DataSeeds, data_size) :
       /\ PushMsgCall(data, data_size)
       /\ UNCHANGED enqueued

PopMsg ==
  /\ ~aborted
  /\ \E max_data_size \in MaxSizes(allocated_size) :
       PopMsgCall(max_data_size)

Next == Create \/ Destroy \/ PushMsg \/ PopMsg

Spec == Init /\ [][Next]_vars


\* ----------------------------------- the framed buffer, of large capacity
\* Storage large enough for a record whose payload has MarkerMod bytes and
\* MaxWideSlack bytes more, or one byte less than that.
WideCapacities ==
  {MarkerMod + MarkerSize + k : k \in (MaxWideSlack - 1)..MaxWideSlack}

\* Sizes passed to pushMsg: a short payload, and the first two lengths that
\* a msg_size_t cannot hold.
WideSizes == {1, MarkerMod, MarkerMod + 1}

\* Receive-buffer sizes passed to popMsg: none, and one that holds any
\* length a marker can declare.
WideMaxSizes == {0, MarkerMod}

InitWide == InitCreated(WideCapacities)

WidePushMsg ==
  /\ ~aborted
  /\ enqueued < MaxEnqueued
  /\ \E data_size \in WideSizes :
     \E seed \in DataSeeds :
       /\ PushMsgCall(WideBlock(seed, data_size), data_size)
       /\ enqueued' = IF last'.ret /\ ~aborted' THEN enqueued + 1 ELSE enqueued

WidePopMsg ==
  /\ ~aborted
  /\ \E max_data_size \in WideMaxSizes :
       PopMsgCall(max_data_size)

NextWide == WidePushMsg \/ WidePopMsg

SpecWide == InitWide /\ [][NextWide]_vars


\* ------------------------------------------------------------ the claims
\* The object after the step.
ThisNext ==
  [buffer |-> buffer', mem |-> mem', allocated_size |-> allocated_size',
   head |-> head', tail |-> tail', free_space |-> free_space']

\* The step is a call of op that returned (no assertion failed in it).
Returned(op) == last'.op = op /\ ~aborted'

\* The step leaves the buffer as it was.
Untouched ==
  /\ head' = head
  /\ tail' = tail
  /\ free_space' = free_space
  /\ nmsgs' = nmsgs
  /\ mem' = mem
  /\ allocated_size' = allocated_size

\* C1: under any interleaving of push and pop calls, the bytes returned by
\* the successful pops are, in order, a prefix of the bytes stored by the
\* successful pushes, split copies at the end of storage included.
C1_Fifo ==
  /\ Len(popped) <= Len(pushed)
  /\ popped = SubSeq(pushed, 1, Len(popped))

\* A pop read its bytes in two pieces, after more bytes than the storage
\* holds went through the buffer.
C1_Witness ==
  /\ last.op = "pop"
  /\ last.ret = TRUE
  /\ 0 < tail
  /\ tail < last.size
  /\ Len(popped) > allocated_size

\* C2: in every state reached by push, pop, saveCheckPoint, loadCheckPoint
\* and clear after create, 0 <= free_space <= capacity and
\* bytesUsed() + bytesFree() = capacity().
C2_FreeSpaceInRange ==
  /\ 0 <= free_space
  /\ free_space <= allocated_size
  /\ bytesUsed(This) + bytesFree(This) = capacity(This)

\* A checkpoint of the full buffer was loaded back after a push.
C2_Witness ==
  /\ last.op = "loadCheckPoint"
  /\ tentative = "no"
  /\ free_space = 0
  /\ allocated_size > 0

\* C3: a push with size > bytesFree(), and a pushMsg with
\* size + sizeof(marker) > bytesFree(), return false and leave the counters,
\* the cursors, the message count and the stored bytes as they were (stated
\* for a created buffer, isValid()).
C3_FailureWithoutMutation ==
  [][(/\ isValid(This)
      /\ \/ last'.op = "push" /\ last'.size > bytesFree(This)
         \/ last'.op = "pushMsg" /\ last'.size + MarkerSize > bytesFree(This))
     => (/\ ~aborted'
         /\ last'.ret = FALSE
         /\ Untouched)]_vars

\* The raw half of C3 on its own (it holds): a push with
\* size > bytesFree() returns false and changes nothing.
PushFailureWithoutMutation ==
  [][(last'.op = "push" /\ last'.size > bytesFree(This))
     => (/\ ~aborted'
         /\ last'.ret = FALSE
         /\ Untouched)]_vars

\* C4: a pop with size > bytesUsed() returns false and changes nothing; with
\* size <= bytesUsed() it returns true, adds exactly size to free_space and
\* leaves the write cursor alone.
C4_Pop ==
  [][last'.op = "pop"
     => IF last'.size > bytesUsed(This)
          THEN /\ ~aborted'
               /\ last'.ret = FALSE
               /\ Untouched
          ELSE /\ ~aborted'
               /\ last'.ret = TRUE
               /\ free_space' = free_space + last'.size
               /\ head' = head]_vars

\* A pop of everything buffered succeeded on a full buffer of capacity 2 or
\* more whose read cursor was not at 0.
C4_Witness ==
  /\ last.op = "pop"
  /\ last.ret = TRUE
  /\ last.size = allocated_size
  /\ allocated_size >= 2
  /\ 0 < tail
  /\ tail < allocated_size

\* C5: a payload of length L < 2^W (L = 0 included) with
\* L + sizeof(marker) <= bytesFree() is enqueued (pushMsg returns true, no
\* assertion fails), and a popMsg with max_data_size >= the length of the
\* message at the front returns that length and the bytes enqueued.
C5_FramedRoundTrip ==
  [][/\ (/\ last'.op = "pushMsg"
         /\ ~last'.null
         /\ last'.size < MarkerMod
         /\ last'.size + MarkerSize <= bytesFree(This))
        => (~aborted' /\ last'.ret = TRUE)
     /\ (/\ last'.op = "popMsg"
         /\ queue # <<>>
         /\ last'.size >= Len(Head(queue)))
        => (/\ ~aborted'
            /\ last'.len = Len(Head(queue))
            /\ last'.out = Head(queue))]_vars

\* The length the marker at the read cursor declares.
DeclaredLength(s) == DecodeMarker(pop_data(s, MarkerSize))

\* C6: a popMsg whose max_data_size is smaller than the declared length of
\* the front message returns 0 and leaves bytesUsed(), numMsgs() and both
\* cursors as they were; a later popMsg with max_data_size at least that
\* length returns the message, its length and its bytes intact.
C6_OversizedGuard ==
  [][(last'.op = "popMsg" /\ queue # <<>>)
     => IF last'.size < DeclaredLength(This)
          THEN /\ ~aborted'
               /\ last'.len = 0
               /\ last'.ret = FALSE
               /\ Untouched
          ELSE /\ ~aborted'
               /\ last'.len = DeclaredLength(This)
               /\ last'.len = Len(Head(queue))
               /\ last'.out = Head(queue)
               /\ nmsgs' = nmsgs - 1]_vars

\* A message popMsg had refused as too large was dequeued by a later popMsg,
\* with another message still behind it.
C6_Witness ==
  /\ last.op = "popMsg"
  /\ refused = "retried"
  /\ last.len >= 2
  /\ nmsgs >= 1
  /\ ~aborted

\* C7: whenever numMsgs() is 0, on a framed buffer under create, pushMsg,
\* popMsg and destroy, both cursors are 0.
C7_CountToEmpty == (~aborted /\ nmsgs = 0) => (head = 0 /\ tail = 0)

\* The last message was just dequeued from a buffer whose storage is full of
\* earlier traffic.
C7_Witness ==
  /\ last.op = "popMsg"
  /\ last.len > 0
  /\ nmsgs = 0
  /\ ~aborted
  /\ \A i \in 1..Len(mem) : mem[i] # Uninit
  /\ allocated_size >= 6

\* The step is a successful push, or a successful pop, on storage of at least
\* one byte.
PushOk == Returned("push") /\ last'.ret = TRUE /\ allocated_size > 0

PopOk == Returned("pop") /\ last'.ret = TRUE /\ allocated_size > 0

C9_Rollback ==
  [][/\ (last'.op = "loadCheckPoint" /\ tentative # "no")
        => (/\ head' = saved[1].head
            /\ tail' = saved[1].tail
            /\ free_space' = saved[1].free_space
            /\ Readable(ThisNext) = saved[1].readable)
     /\ (Returned("pop") /\ last'.ret = TRUE)
        => last'.out = SubSeq(Readable(This), 1, last'.size)]_vars

\* A checkpoint was loaded after bytes were popped, and a split read is
\* ahead.
C9_Witness ==
  /\ last.op = "loadCheckPoint"
  /\ tentative = "popped"
  /\ Len(saved[1].readable) = 2
  /\ tail = 1

\* C10: push returns true only for 0 < size < capacity; a size above the
\* capacity gives false and no change; size 0, and size = capacity on an
\* empty buffer, fail an assertion; so no push takes the buffer from empty
\* to full.
C10_PushPrecondition ==
  [][last'.op = "push"
     => /\ (~aborted' /\ last'.ret = TRUE)
           => (0 < last'.size /\ last'.size < allocated_size)
        /\ last'.size > allocated_size
           => (~aborted' /\ last'.ret = FALSE /\ Untouched)
        /\ (last'.size = 0 \/ (last'.size = allocated_size /\ empty(This)))
           => aborted'
        /\ (~aborted' /\ last'.ret = TRUE /\ empty(This))
           => free_space' > 0]_vars

\* The buffer was filled completely, by more than one push.
C10_Witness ==
  /\ last.op = "push"
  /\ last.ret = TRUE
  /\ free_space = 0
  /\ allocated_size >= 2
  /\ ~aborted

\* The bytes the records of the messages in q take in storage.
RECURSIVE FramedBytes(_)
FramedBytes(q) ==
  IF q = <<>> THEN 0 ELSE MarkerSize + Len(Head(q)) + FramedBytes(Tail(q))

\* The record at the read cursor is that of the oldest message enqueued,
\* whose length L a marker cannot hold.
NarrowedAtFront ==
  /\ queue # <<>>
  /\ Len(Head(queue)) >= MarkerMod
  /\ bytesUsed(This) = FramedBytes(queue)

ScenarioB2 ==
  /\ allocated_size = 10
  /\ Len(pushed) = 7
  /\ Len(popped) = 3
  /\ ~aborted

\* The step is the scenario's push of 6 more bytes.
ScenarioB3 == ScenarioB2 /\ last'.op = "push" /\ last'.size = 6

\* The split of that push: 3 bytes before the end of storage, 3 bytes from
\* offset 0, every byte popped so far in write order.
ScenarioBSplit ==
  /\ ~aborted'
  /\ last'.ret = TRUE
  /\ MemRead(mem', 7, 3) = SubSeq(pushed', 8, 10)
  /\ MemRead(mem', 0, 3) = SubSeq(pushed', 11, 13)
  /\ head' = 3
  /\ popped = SubSeq(pushed, 1, 3)

\* The step pops n bytes, all that is buffered, and returns bytes 4, 5, ...
\* of those pushed.
PopsAll(n) ==
  /\ (last'.op = "pop" /\ last'.size = n /\ allocated_size = 10
      /\ Len(pushed) = 13 /\ Len(popped) = 3 /\ ~aborted)
     => (/\ ~aborted'
         /\ last'.ret = TRUE
         /\ last'.out = SubSeq(pushed, 4, 3 + n)
         /\ empty(ThisNext))

\* C12 as stated: in storage of 10 bytes, after a push of 7 and a pop of 3
\* the cursors are 7 and 3 and free_space is 6; a push of 6 then succeeds,
\* split 3 + 3; the buffer then holds 9 bytes, and a pop of these 9 returns
\* all that is buffered, in write order.
C12_ScenarioNineBytes ==
  /\ [](ScenarioB2 => (head = 7 /\ tail = 3 /\ free_space = 6))
  /\ [][/\ ScenarioB3 => (ScenarioBSplit /\ bytesUsed(ThisNext) = 9)
        /\ PopsAll(9)]_vars

\* C12 as amended: the buffer then holds 10 bytes, it is full, with both
\* cursors at 3, and a pop of these 10 returns them in write order.
C12_ScenarioTenBytes ==
  /\ [](ScenarioB2 => (head = 7 /\ tail = 3 /\ free_space = 6))
  /\ [][/\ ScenarioB3
           => (/\ ScenarioBSplit
               /\ bytesUsed(ThisNext) = 10
               /\ free_space' = 0
               /\ tail' = 3)
        /\ PopsAll(10)]_vars

\* The scenario was run to its end: 7 bytes pushed, 3 popped, 6 pushed from
\* another block, 10 popped.
C12_Witness ==
  /\ allocated_size = 10
  /\ last.op = "pop"
  /\ last.size = 10
  /\ last.ret = TRUE
  /\ Len(pushed) = 13
  /\ Len(popped) = 13
  /\ pushed[1] # pushed[8]
  /\ tail = 3
  /\ head = 3

\* C13: the framed buffer is a FIFO queue of messages: every popMsg that
\* returns a message returns the length and the bytes of the oldest message
\* enqueued and not yet dequeued, and takes it off the queue, so the k-th
\* message dequeued is the k-th enqueued, wraps and clear() notwithstanding.
C13_MessageFifo ==
  [][(Returned("popMsg") /\ last'.len > 0)
     => (/\ queue # <<>>
         /\ last'.len = Len(Head(queue))
         /\ last'.out = Head(queue)
         /\ queue' = Tail(queue))]_vars

\* A message was dequeued ahead of a different one whose record wraps round
\* the end of storage.
C13_Witness ==
  /\ last.op = "popMsg"
  /\ last.len > 0
  /\ ~aborted
  /\ queue # <<>>
  /\ Len(Head(queue)) # last.len
  /\ head < tail
  /\ nmsgs = Len(queue)

\* C14: whenever size + sizeof(marker) <= bytesFree(), for every capacity
\* and every size, pushMsg fails no assertion, returns true, and adds
\* size + sizeof(marker) to bytesUsed() and 1 to numMsgs().
C14_PushMsgAtomic ==
  [][(/\ last'.op = "pushMsg"
      /\ ~last'.null
      /\ last'.size + MarkerSize <= bytesFree(This))
     => (/\ ~aborted'
         /\ last'.ret = TRUE
         /\ bytesUsed(ThisNext) = bytesUsed(This) + last'.size + MarkerSize
         /\ nmsgs' = nmsgs + 1)]_vars

\* The call leaves bytesUsed(), numMsgs() and both cursors as they were.
NothingConsumed ==
  /\ bytesUsed(ThisNext) = bytesUsed(This)
  /\ nmsgs' = nmsgs
  /\ head' = head
  /\ tail' = tail

\* The call took the record at the front, of payload length last'.len.
RecordConsumed ==
  /\ queue # <<>>
  /\ last'.len = Len(Head(queue))
  /\ bytesUsed(ThisNext) = bytesUsed(This) - (MarkerSize + last'.len)
  /\ nmsgs' = nmsgs - 1

\* C15: every popMsg fails no assertion and either takes one whole record
\* (bytesUsed() goes down by sizeof(marker) + L, numMsgs() by 1) or leaves
\* bytesUsed(), numMsgs() and both cursors as they were, the latter when
\* fewer than sizeof(marker) bytes are buffered or L > max_data_size; and
\* between calls the bytes buffered are whole records only.
C15_PopMsgAllOrNothing ==
  /\ [](~aborted => bytesUsed(This) = FramedBytes(queue))
  /\ [][last'.op = "popMsg"
        => /\ ~aborted'
           /\ IF bytesUsed(This) < MarkerSize
                THEN NothingConsumed
                ELSE IF DeclaredLength(This) > last'.size
                  THEN NothingConsumed
                  ELSE RecordConsumed]_vars

\* C17: with checkpoints loaded around pops only and clear() called only
\* when empty, the write cursor is congruent to the read cursor plus
\* bytesUsed() modulo the capacity; so the cursors are congruent exactly
\* when the buffer is empty or full; and a successful push leaves every byte
\* not yet popped as it was.
C17_CursorConsistency ==
  /\ [](allocated_size > 0
        => /\ head % allocated_size
                = (tail + bytesUsed(This)) % allocated_size
           /\ (head % allocated_size = tail % allocated_size)
                <=> (free_space = allocated_size \/ free_space = 0))
  /\ [][(Returned("push") /\ last'.ret = TRUE)
        => SubSeq(Readable(ThisNext), 1, bytesUsed(This)) = Readable(This)]_vars

\* A push wrapped round the end of storage and filled the buffer up to the
\* read cursor, which is inside the storage.
C17_Witness ==
  /\ last.op = "push"
  /\ last.ret = TRUE
  /\ free_space = 0
  /\ head = tail
  /\ 0 < tail
  /\ tail < allocated_size
  /\ last.size >= 2

\* C18: popMsg returns 0 exactly when it took no record: bytesUsed() and
\* numMsgs() are as they were; when it takes a record it returns a value
\* other than 0.
C18_ZeroMeansNothingTaken ==
  [][Returned("popMsg")
     => (last'.len = 0
         <=> (bytesUsed(ThisNext) = bytesUsed(This) /\ nmsgs' = nmsgs))]_vars

\* C16: in every state reached by create, pushMsg, popMsg and destroy,
\* numMsgs() is the number of records buffered, so numMsgs() = 0 exactly
\* when empty().
C16_CountMatchesRecords ==
  ~aborted => (/\ nmsgs = Len(queue)
               /\ (nmsgs = 0) <=> empty(This))

\* C19: create on a created buffer fails an assertion; destroy fails
\* nothing and leaves capacity, bytesFree(), bytesUsed(), both cursors and
\* numMsgs() at 0, isValid() false and the storage pointer null; so a create
\* after destroy succeeds as the first one does.
C19_Lifecycle ==
  [][/\ (last'.op = "create" /\ buffer = "allocated") => aborted'
     /\ last'.op = "destroy"
        => (/\ ~aborted'
            /\ capacity(ThisNext) = 0
            /\ bytesFree(ThisNext) = 0
            /\ bytesUsed(ThisNext) = 0
            /\ head' = 0
            /\ tail' = 0
            /\ ~isValid(ThisNext)
            /\ buffer' = "nullptr"
            /\ nmsgs' = 0)
     /\ (last'.op = "create" /\ last.op = "destroy")
        => (/\ ~aborted'
            /\ capacity(ThisNext) = last'.size
            /\ bytesFree(ThisNext) = last'.size)]_vars

=============================================================================
